---- MODULE Spec2Model ----
(***************************************************************************)
(* Supply/demand hotspot dashboard (src/updated.py, the latest revision;   *)
(* src/aa.py carries the same query and the same get_status).              *)
(*                                                                         *)
(* The warehouse tables are the state the program reads; fetch_data,       *)
(* fetch_previous_hour_data, create_map and main are the operations, and   *)
(* st.cache_data keeps what the fetch functions returned.  fetch_data and  *)
(* main of src/demand.py are modelled next to them.                        *)
(*                                                                         *)
(* Units.  Times are minutes since the midnight that starts day 0, in the  *)
(* America/Los_Angeles wall clock.  Durations ("hours" in the source) are  *)
(* kept in minutes, i.e. multiplied by 60, so that 0.1 h is 6 and 24 h is  *)
(* 1440.  predicted_demand is kept in tenths, so that 2 is 20.  Positions  *)
(* are metres on a line and ST_DISTANCE is the absolute difference.        *)
(***************************************************************************)
EXTENDS Integers, Sequences, FiniteSets, TLC

VARIABLES
  now,             \* datetime.now(pst), minutes
  stg_hotspots,    \* table stg_delivery_platform__hotspots
  stg_rover_state, \* table stg_rover_state, the rows inside an on-duty interval
  deliveries_wide, \* table deliveries_wide (prod, uber_eats_api rows)
  quotes,          \* table quotes (prod, uber_eats_api rows)
  call,            \* the last call: function name and arguments
  data,            \* frame returned by fetch_data (create_map: its local `data`)
  prev_data,       \* frame returned by fetch_previous_hour_data
  popups,          \* rectangles added to the map by create_map, in row order
  warnings,        \* hotspot labels for which st.warning was shown
  query,           \* intermediate tables of the query that produced the last frame
  cache,           \* values memoised by st.cache_data, by function and arguments
  failure          \* how the last request ended: "none", "raised" or "st.error"

vars == <<now, stg_hotspots, stg_rover_state, deliveries_wide, quotes, call, data, prev_data, popups, warnings, query, cache, failure>>

source == <<now, stg_hotspots, stg_rover_state, deliveries_wide, quotes>>

(***************************************************************************)
(* Program constants                                                       *)
(***************************************************************************)
OfferRadius == 400          \* ST_DISTANCE(...) <= 400
AssignRadius == 420         \* ST_DISTANCE(...) <= 420
SupplyThreshold == 6        \* supply > 0.1 (hours), in minutes
UnrealisticSupply == 1440   \* supply > 24 (hours), in minutes
HighDemand == 20            \* demand >= 2, in tenths
LastHour == 23              \* prev_hour = 23
WindowMinutes == 1440       \* INTERVAL 24 HOUR
RoverWindowMinutes == 2880  \* INTERVAL 2 DAY
MinutesPerHour == 60        \* TIMESTAMP_DIFF(..., SECOND) / 3600.0 is hours
NULL == -1                  \* SQL NULL / pandas NaN in a time, id or demand column

HoursPerDay == LastHour + 1
MinutesPerDay == HoursPerDay * MinutesPerHour

(***************************************************************************)
(* Bounds of the model                                                     *)
(***************************************************************************)
MaxSamples == 3             \* rows of stg_rover_state

(***************************************************************************)
(* Clock and geometry helpers                                              *)
(***************************************************************************)
\* EXTRACT(HOUR FROM t)
HourOf(t) == (t \div MinutesPerHour) % HoursPerDay

\* current_time.date(), as a day number
DateOf(t) == t \div MinutesPerDay

\* current_time.date() + timedelta(days=day_offset)
selected_date(t_now, day_offset) == DateOf(t_now) + day_offset

\* TIMESTAMP_TRUNC(t, HOUR)
TIMESTAMP_TRUNC(t) == (t \div MinutesPerHour) * MinutesPerHour

ST_DISTANCE(a, b) == IF a >= b THEN a - b ELSE b - a

Min(S) == CHOOSE x \in S : \A y \in S : x <= y

RECURSIVE SumHours(_)
\* The total of the field `hours` over a set of rows.
SumHours(S) ==
  IF S = {} THEN 0
  ELSE LET x == CHOOSE y \in S : TRUE IN x.hours + SumHours(S \ {x})

\* SQL SUM(hours): NULL over no rows
SUM(S) == IF S = {} THEN NULL ELSE SumHours(S)

\* Mutant: the default is dropped.
COALESCE_dropped(x, d) == x

\* SQL COALESCE(x, d)
COALESCE(x, d) == IF x = NULL THEN d ELSE x

\* A delivery_count that is NULL or is not the text of a number.
NotNumeric == NULL

\* SAFE_CAST(delivery_count AS FLOAT64): NULL instead of an error
SAFE_CAST(x) == IF x = NotNumeric THEN NULL ELSE x

(***************************************************************************)
(* The query of fetch_data, one definition per common table expression     *)
(***************************************************************************)
\* WITH hotspots AS (...)
hotspots(hour, date) ==
  { [label |-> h.label,
     hotspot_location |-> h.hotspot_location,
     predicted_demand |-> SAFE_CAST(h.delivery_count)] :
    h \in {x \in stg_hotspots : x.date = date /\ x.part_of_day = hour} }

\* The quotes joined to hotspot h by hotspot_offers.
offers_of(h, hour, t_now) ==
  {q \in quotes :
     /\ ST_DISTANCE(h.hotspot_location, q.pickup_location) <= OfferRadius
     /\ q.time >= t_now - WindowMinutes
     /\ HourOf(q.time) = hour
     /\ q.partner_job_id # NULL}

\* Mutant: COUNT(*) instead of COUNT(DISTINCT q.partner_job_id).
hotspot_offers_count_rows(hs, hour, t_now) ==
  { [hotspot_label |-> h.label,
     num_offers |-> Cardinality(offers_of(h, hour, t_now))] :
    h \in {x \in hs : offers_of(x, hour, t_now) # {}} }

\* hotspot_offers AS (...): a row only for a hotspot with a joined quote
hotspot_offers(hs, hour, t_now) ==
  { [hotspot_label |-> h.label,
     num_offers |-> Cardinality({q.partner_job_id : q \in offers_of(h, hour, t_now)})] :
    h \in {x \in hs : offers_of(x, hour, t_now) # {}} }

\* delivery_times AS (...)
delivery_times(t_now) ==
  { [robot_id |-> d.robot_id, start_ts |-> d.start_ts, end_ts |-> d.end_ts] :
    d \in {x \in deliveries_wide : x.start_ts >= t_now - WindowMinutes} }

\* filtered_rover_state AS (...): r.* and is_on_delivery, which is TRUE when
\* the LEFT JOIN finds a delivery of the robot around the sample
filtered_rover_state(hour, t_now) ==
  { [robot_id |-> r.robot_id,
     time_pst |-> r.time_pst,
     geo_pose |-> r.geo_pose,
     is_on_delivery |-> \E dt \in delivery_times(t_now) :
                          /\ r.robot_id = dt.robot_id
                          /\ dt.start_ts <= r.time_pst
                          /\ r.time_pst <= dt.end_ts] :
    r \in {x \in stg_rover_state :
             /\ HourOf(x.time_pst) = hour
             /\ x.time_pst >= t_now - WindowMinutes
             /\ x.time_pst > t_now - RoverWindowMinutes} }

\* point_assignments AS (...): CROSS JOIN, distance filter, GROUP BY all columns
point_assignments(frs, hs) ==
  { [robot_id |-> p[1].robot_id,
     time_pst |-> p[1].time_pst,
     is_on_delivery |-> p[1].is_on_delivery,
     time_hour |-> TIMESTAMP_TRUNC(p[1].time_pst),
     location |-> p[2].label] :
    p \in {q \in frs \X hs :
             ST_DISTANCE(q[2].hotspot_location, q[1].geo_pose) <= AssignRadius} }

\* The rows of pa that share robot_id and time_pst with p: they tie in
\* ORDER BY time_pst.
peers(pa, p) == {q \in pa : q.robot_id = p.robot_id /\ q.time_pst = p.time_pst}

\* The orders in which the engine may put the rows that tie in
\* PARTITION BY robot_id ORDER BY time_pst.  LEAD only depends on which row of
\* each tie comes last, so an order is given as that row's location.
tie_orders(pa) ==
  LET G == {<<p.robot_id, p.time_pst>> : p \in pa}
  IN  {c \in [G -> {p.location : p \in pa}] :
         \A g \in G : \E p \in pa :
            p.robot_id = g[1] /\ p.time_pst = g[2] /\ p.location = c[g]}

\* Mutant: no PARTITION BY robot_id, the next row of any robot follows.
LEAD_any_robot(pa, order, p) ==
  IF order[<<p.robot_id, p.time_pst>>] # p.location
  THEN p.time_pst
  ELSE LET later == {q.time_pst : q \in {x \in pa : x.time_pst > p.time_pst}}
       IN  IF later = {} THEN NULL ELSE Min(later)

\* Mutant: a robot's last row is followed by the end of its hour.
LEAD_to_end_of_hour(pa, order, p) ==
  IF order[<<p.robot_id, p.time_pst>>] # p.location
  THEN p.time_pst
  ELSE LET later == {q.time_pst : q \in {x \in pa : x.robot_id = p.robot_id
                                                   /\ x.time_pst > p.time_pst}}
       IN  IF later = {} THEN p.time_hour + MinutesPerHour ELSE Min(later)

\* Mutant: every row of a tie is followed by the robot's next later row.
LEAD_every_tied_row(pa, order, p) ==
  LET later == {q.time_pst : q \in {x \in pa : x.robot_id = p.robot_id
                                              /\ x.time_pst > p.time_pst}}
  IN  IF later = {} THEN NULL ELSE Min(later)

\* LEAD(time_pst) OVER (PARTITION BY robot_id ORDER BY time_pst)
LEAD(pa, order, p) ==
  IF order[<<p.robot_id, p.time_pst>>] # p.location
  THEN p.time_pst
  ELSE LET later == {q.time_pst : q \in {x \in pa : x.robot_id = p.robot_id
                                                   /\ x.time_pst > p.time_pst}}
       IN  IF later = {} THEN NULL ELSE Min(later)

\* ORDER BY location: "h1" sorts before "h2"
LabelBefore(a, b) == a = "h1" /\ b = "h2"

\* ROW_NUMBER() OVER (PARTITION BY robot_id, time_pst ORDER BY location)
ROW_NUMBER(pa, p) == 1 + Cardinality({q \in peers(pa, p) : LabelBefore(q.location, p.location)})

\* bulk AS (...)
bulk(pa, order) ==
  { [robot_id |-> p.robot_id,
     time_pst |-> p.time_pst,
     is_on_delivery |-> p.is_on_delivery,
     time_hour |-> p.time_hour,
     location |-> p.location,
     next_time_pst |-> LEAD(pa, order, p),
     rn |-> ROW_NUMBER(pa, p)] : p \in pa }

\* TIMESTAMP_DIFF(next_time_pst, time_pst, SECOND) / 3600.0 of each row that
\* passes WHERE next_time_pst IS NOT NULL
credited(b) ==
  { [robot_id |-> x.robot_id,
     time_pst |-> x.time_pst,
     is_on_delivery |-> x.is_on_delivery,
     location |-> x.location,
     next_time_pst |-> x.next_time_pst,
     hours |-> x.next_time_pst - x.time_pst] :
    x \in {y \in b : y.next_time_pst # NULL} }

\* hotspot_supply_hours: SELECT ... GROUP BY location, is_on_delivery, robot_id
hotspot_supply_hours(b) ==
  LET rows == credited(b)
      keys == {<<x.location, x.is_on_delivery, x.robot_id>> : x \in rows}
  IN  { [hotspot_label |-> k[1],
         is_on_delivery |-> k[2],
         robot_id |-> k[3],
         hours |-> SUM({x \in rows : /\ x.location = k[1]
                                     /\ x.is_on_delivery = k[2]
                                     /\ x.robot_id = k[3]}),
         num_robots |-> 1] : k \in keys }

\* COALESCE(SUM(CASE WHEN hs.is_on_delivery = FALSE THEN hs.hours END), 0)
on_duty_not_on_delivery_hours(rows) ==
  COALESCE(SUM({s \in rows : s.is_on_delivery = FALSE}), 0)

\* Mutant: the CASE is dropped, every row counts as on delivery.
on_duty_on_delivery_hours_all(rows) == COALESCE(SUM(rows), 0)

\* COALESCE(SUM(CASE WHEN hs.is_on_delivery = TRUE THEN hs.hours END), 0)
on_duty_on_delivery_hours(rows) ==
  COALESCE(SUM({s \in rows : s.is_on_delivery = TRUE}), 0)

\* COALESCE(SUM(hs.hours), 0)
net_supply_hours(rows) == COALESCE(SUM(rows), 0)

\* ho.num_offers of the LEFT JOIN hotspot_offers: NULL without a joined row
joined_num_offers(ho, label) ==
  IF \E o \in ho : o.hotspot_label = label
  THEN (CHOOSE o \in ho : o.hotspot_label = label).num_offers
  ELSE NULL

\* The final SELECT: hotspots LEFT JOIN hotspot_offers LEFT JOIN
\* hotspot_supply_hours, grouped per hotspot row.
final_select(hs, ho, hsh) ==
  { [hotspot_label |-> h.label,
     predicted_demand |-> h.predicted_demand,
     location |-> h.hotspot_location,
     num_offers |-> COALESCE(joined_num_offers(ho, h.label), 0),
     on_duty_not_on_delivery_hours |->
        on_duty_not_on_delivery_hours({s \in hsh : s.hotspot_label = h.label}),
     on_duty_on_delivery_hours |->
        on_duty_on_delivery_hours({s \in hsh : s.hotspot_label = h.label}),
     net_supply_hours |-> net_supply_hours({s \in hsh : s.hotspot_label = h.label}),
     num_robots |-> Cardinality({s.robot_id : s \in {x \in hsh : x.hotspot_label = h.label}})] :
    h \in hs }

\* Row a may come right before row b in ORDER BY predicted_demand DESC: NULLs
\* sort last, numbers by value.
desc_before(a, b) ==
  \/ b.predicted_demand = NULL
  \/ a.predicted_demand # NULL /\ a.predicted_demand >= b.predicted_demand

\* ORDER BY h.predicted_demand DESC: every arrangement of the rows in which
\* the demand never increases (rows of equal demand come in any order).
order_by_predicted_demand_desc(rows) ==
  LET n == Cardinality(rows)
  IN  {f \in [1..n -> rows] :
         /\ \A i, j \in 1..n : i # j => f[i] # f[j]
         /\ \A i \in 1..n : i < n => desc_before(f[i], f[i + 1])}

\* data.loc[data['predicted_demand'] <= 0, 'predicted_demand'] = 0: NaN <= 0 is
\* False, a NaN stays
clamp(frame) ==
  [i \in 1..Len(frame) |->
     IF frame[i].predicted_demand # NULL /\ frame[i].predicted_demand <= 0
     THEN [frame[i] EXCEPT !.predicted_demand = 0]
     ELSE frame[i]]

\* The runs fetch_data(hour, day_offset) may make at clock t_now, one per
\* order of the tied rows and per order of the rows of equal demand: the
\* frame returned and the intermediate tables it came from.
fetch_data_runs(hour, day_offset, t_now) ==
  LET hs == hotspots(hour, selected_date(t_now, day_offset))
      frs == filtered_rover_state(hour, t_now)
      pa == point_assignments(frs, hs)
      ho == hotspot_offers(hs, hour, t_now)
  IN  UNION { { [frame |-> clamp(f),
                 hotspots |-> hs,
                 samples |-> frs,
                 assigned |-> pa,
                 credits |-> credited(bulk(pa, order)),
                 offers |-> UNION {offers_of(h, hour, t_now) : h \in hs}] :
                f \in order_by_predicted_demand_desc(
                        final_select(hs, ho, hotspot_supply_hours(bulk(pa, order)))) } :
              order \in tie_orders(pa) }

(***************************************************************************)
(* fetch_previous_hour_data and create_map                                 *)
(***************************************************************************)
\* Mutant: the day offset is not moved back at hour 0.
prev_bucket_same_day(hour, day_offset) ==
  LET prev_hour == hour - 1
  IN  IF prev_hour < 0
      THEN [prev_hour |-> LastHour, prev_day_offset |-> day_offset]
      ELSE [prev_hour |-> prev_hour, prev_day_offset |-> day_offset]

\* prev_hour, prev_day_offset of fetch_previous_hour_data
prev_bucket(hour, day_offset) ==
  LET prev_hour == hour - 1
  IN  IF prev_hour < 0
      THEN [prev_hour |-> LastHour, prev_day_offset |-> day_offset - 1]
      ELSE [prev_hour |-> prev_hour, prev_day_offset |-> day_offset]

\* The runs fetch_previous_hour_data(hour, day_offset) may make.
fetch_previous_hour_data_runs(hour, day_offset, t_now) ==
  fetch_data_runs(prev_bucket(hour, day_offset).prev_hour,
                     prev_bucket(hour, day_offset).prev_day_offset, t_now)

\* Mutant: demand > 2 instead of demand >= 2.
get_status_above_2(row) ==
  LET demand == row.predicted_demand
      supply == row.net_supply_hours
      has_supply == supply > SupplyThreshold
      number == demand # NULL
  IN  IF number /\ demand > HighDemand /\ ~has_supply
      THEN [status |-> "High Demand No Supply", warning |-> FALSE]
      ELSE IF number /\ demand > 0 /\ ~has_supply
      THEN [status |-> "Demand No Supply", warning |-> FALSE]
      ELSE IF number /\ demand > 0 /\ has_supply
      THEN [status |-> "Demand With Supply", warning |-> supply > UnrealisticSupply]
      ELSE IF has_supply /\ number /\ demand <= 0
      THEN [status |-> "Supply No Demand", warning |-> FALSE]
      ELSE [status |-> "No Activity", warning |-> FALSE]

\* get_status(row): the category returned and whether st.warning is called.
get_status(row) ==
  LET demand == row.predicted_demand
      supply == row.net_supply_hours
      has_supply == supply > SupplyThreshold
      number == demand # NULL   \* every comparison with NaN is False
  IN  IF number /\ demand >= HighDemand /\ ~has_supply
      THEN [status |-> "High Demand No Supply", warning |-> FALSE]
      ELSE IF number /\ demand > 0 /\ ~has_supply
      THEN [status |-> "Demand No Supply", warning |-> FALSE]
      ELSE IF number /\ demand > 0 /\ has_supply
      THEN [status |-> "Demand With Supply", warning |-> supply > UnrealisticSupply]
      ELSE IF has_supply /\ number /\ demand <= 0
      THEN [status |-> "Supply No Demand", warning |-> FALSE]
      ELSE [status |-> "No Activity", warning |-> FALSE]

\* prev_demand of create_map's loop: the first previous-hour row of the label, else 0
prev_demand_of(prev, label) ==
  LET m == SelectSeq(prev, LAMBDA r : r.hotspot_label = label)
  IN  IF Len(m) > 0 THEN m[1].predicted_demand ELSE 0

\* Mutant: equal demands count as rising.
trend_of_or_equal(predicted_demand, prev_demand) ==
  LET numbers == predicted_demand # NULL /\ prev_demand # NULL
  IN  IF numbers /\ predicted_demand >= prev_demand THEN "up"
      ELSE IF numbers /\ predicted_demand < prev_demand THEN "down"
      ELSE "flat"

\* trend of create_map's loop
trend_of(predicted_demand, prev_demand) ==
  LET numbers == predicted_demand # NULL /\ prev_demand # NULL   \* NaN compares False
  IN  IF numbers /\ predicted_demand > prev_demand THEN "up"
      ELSE IF numbers /\ predicted_demand < prev_demand THEN "down"
      ELSE "flat"

\* One rectangle per row of data, in row order.
popups_of(d, prev) ==
  [i \in 1..Len(d) |->
     [hotspot_label |-> d[i].hotspot_label,
      predicted_demand |-> d[i].predicted_demand,
      trend |-> trend_of(d[i].predicted_demand, prev_demand_of(prev, d[i].hotspot_label)),
      prev_demand |-> prev_demand_of(prev, d[i].hotspot_label),
      num_offers |-> d[i].num_offers,
      net_supply_hours |-> d[i].net_supply_hours,
      status |-> get_status(d[i]).status]]

(***************************************************************************)
(* st.cache_data                                                           *)
(***************************************************************************)
\* The key of a memoised call: the function and its arguments.
fetch_data_key(hour, day_offset) == <<"fetch_data", hour, day_offset>>

fetch_previous_hour_data_key(hour, day_offset) ==
  <<"fetch_previous_hour_data", hour, day_offset>>

\* A process that has memoised nothing.
EmptyCache == <<>>

\* No query has run.
NoTables ==
  [hotspots |-> {}, samples |-> {}, assigned |-> {}, credits |-> {}, offers |-> {}]

(***************************************************************************)
(* The operations                                                          *)
(***************************************************************************)
\* In fetch_data, fetch_previous_hour_data and create_map below the call reaches
\* a process that has just started, with nothing memoised, and the warehouse
\* answers; what st.cache_data then holds is in cache.  main further below
\* serves a request from a running process.
fetch_data(hour, day_offset) ==
  /\ \E run \in fetch_data_runs(hour, day_offset, now) :
       /\ data' = run.frame
       /\ cache' = (fetch_data_key(hour, day_offset)
                     :> [data |-> run.frame, refresh_time |-> now])
       /\ query' = [hotspots |-> run.hotspots, samples |-> run.samples,
                    assigned |-> run.assigned,
                    credits |-> run.credits, offers |-> run.offers]
  /\ call' = [fn |-> "fetch_data", hour |-> hour, day_offset |-> day_offset,
              refresh_time |-> now]
  /\ prev_data' = <<>>
  /\ popups' = <<>>
  /\ warnings' = {}
  /\ failure' = "none"
  /\ UNCHANGED source

fetch_previous_hour_data(hour, day_offset) ==
  /\ \E run \in fetch_previous_hour_data_runs(hour, day_offset, now) :
       /\ prev_data' = run.frame
       /\ cache' = (fetch_data_key(prev_bucket(hour, day_offset).prev_hour,
                                    prev_bucket(hour, day_offset).prev_day_offset)
                       :> [data |-> run.frame, refresh_time |-> now])
                    @@ (fetch_previous_hour_data_key(hour, day_offset)
                          :> [data |-> run.frame])
       /\ query' = [hotspots |-> run.hotspots, samples |-> run.samples,
                    assigned |-> run.assigned,
                    credits |-> run.credits, offers |-> run.offers]
  /\ call' = [fn |-> "fetch_previous_hour_data", hour |-> hour, day_offset |-> day_offset,
              prev_hour |-> prev_bucket(hour, day_offset).prev_hour,
              prev_day_offset |-> prev_bucket(hour, day_offset).prev_day_offset,
              refresh_time |-> now]
  /\ data' = <<>>
  /\ popups' = <<>>
  /\ warnings' = {}
  /\ failure' = "none"
  /\ UNCHANGED source

create_map(hour, day_offset) ==
  /\ \E run \in fetch_data_runs(hour, day_offset, now) :
       \E prev \in fetch_previous_hour_data_runs(hour, day_offset, now) :
         /\ data' = run.frame
         /\ prev_data' = prev.frame
         /\ cache' = (fetch_data_key(hour, day_offset)
                         :> [data |-> run.frame, refresh_time |-> now])
                      @@ (fetch_data_key(prev_bucket(hour, day_offset).prev_hour,
                                         prev_bucket(hour, day_offset).prev_day_offset)
                            :> [data |-> prev.frame, refresh_time |-> now])
                      @@ (fetch_previous_hour_data_key(hour, day_offset)
                            :> [data |-> prev.frame])
         /\ query' = [hotspots |-> run.hotspots, samples |-> run.samples,
                      assigned |-> run.assigned,
                      credits |-> run.credits, offers |-> run.offers]
         \* data.empty returns before the loop: no rectangle, no warning
         /\ popups' = popups_of(run.frame, prev.frame)
         /\ warnings' = {run.frame[i].hotspot_label :
                           i \in {j \in 1..Len(run.frame) : get_status(run.frame[j]).warning}}
  /\ call' = [fn |-> "create_map", hour |-> hour, day_offset |-> day_offset,
              prev_hour |-> prev_bucket(hour, day_offset).prev_hour,
              prev_day_offset |-> prev_bucket(hour, day_offset).prev_day_offset,
              refresh_time |-> now]
  /\ failure' = "none"
  /\ UNCHANGED source

(***************************************************************************)
(* Calls in a running process: st.cache_data looks the arguments up, runs  *)
(* the function on a miss and stores what it returns; an exception is not  *)
(* stored.  Each operator gives the outcomes of one call from the          *)
(* memoised values memo: whether it raised, whether it was served from     *)
(* memo, the queries sent to the warehouse, the value, and memo after it.  *)
(* fails tells that the warehouse fails the query of this call.            *)
(***************************************************************************)
fetch_data_calls(memo, hour, day_offset, t_now, fails) ==
  LET key == fetch_data_key(hour, day_offset)
  IN  IF key \in DOMAIN memo
      THEN { [raised |-> FALSE, hit |-> TRUE, queries |-> 0,
              value |-> memo[key], memo |-> memo, tables |-> NoTables] }
      ELSE IF fails
      THEN \* bq.query(query).result() raises inside fetch_data
           { [raised |-> TRUE, hit |-> FALSE, queries |-> 1,
              value |-> [data |-> <<>>, refresh_time |-> t_now],
              memo |-> memo, tables |-> NoTables] }
      ELSE { [raised |-> FALSE, hit |-> FALSE, queries |-> 1,
              value |-> [data |-> run.frame, refresh_time |-> t_now],
              memo |-> (key :> [data |-> run.frame, refresh_time |-> t_now]) @@ memo,
              tables |-> [hotspots |-> run.hotspots, samples |-> run.samples,
                          assigned |-> run.assigned, credits |-> run.credits,
                          offers |-> run.offers]] :
             run \in fetch_data_runs(hour, day_offset, t_now) }

fetch_previous_hour_data_calls(memo, hour, day_offset, t_now, fails) ==
  LET key == fetch_previous_hour_data_key(hour, day_offset)
      prev == prev_bucket(hour, day_offset)
  IN  IF key \in DOMAIN memo
      THEN { [raised |-> FALSE, hit |-> TRUE, queries |-> 0,
              value |-> memo[key], memo |-> memo] }
      ELSE { IF inner.raised
             THEN [raised |-> TRUE, hit |-> FALSE, queries |-> inner.queries,
                   value |-> [data |-> <<>>], memo |-> inner.memo]
             ELSE [raised |-> FALSE, hit |-> FALSE, queries |-> inner.queries,
                   value |-> [data |-> inner.value.data],
                   memo |-> (key :> [data |-> inner.value.data]) @@ inner.memo] :
             inner \in fetch_data_calls(memo, prev.prev_hour, prev.prev_day_offset,
                                        t_now, fails) }

\* The warehouse answers every query, fails the query for the current bucket,
\* or fails the query for the previous-hour bucket.
Faults == {"none", "current", "previous"}

\* create_map(hour, day_offset) in a running process.
create_map_calls(memo, hour, day_offset, t_now, fault) ==
  UNION { IF first.raised
          THEN { [raised |-> TRUE, hit |-> FALSE, queries |-> first.queries,
                  data |-> <<>>, prev_data |-> <<>>, popups |-> <<>>, warnings |-> {},
                  refresh_time |-> t_now, memo |-> first.memo, tables |-> NoTables] }
          ELSE { IF second.raised
                 THEN [raised |-> TRUE, hit |-> first.hit,
                       queries |-> first.queries + second.queries,
                       data |-> <<>>, prev_data |-> <<>>, popups |-> <<>>, warnings |-> {},
                       refresh_time |-> t_now, memo |-> second.memo, tables |-> NoTables]
                 ELSE [raised |-> FALSE, hit |-> first.hit,
                       queries |-> first.queries + second.queries,
                       data |-> first.value.data, prev_data |-> second.value.data,
                       popups |-> popups_of(first.value.data, second.value.data),
                       warnings |-> {first.value.data[i].hotspot_label :
                                       i \in {j \in 1..Len(first.value.data) :
                                                get_status(first.value.data[j]).warning}},
                       refresh_time |-> first.value.refresh_time,
                       memo |-> second.memo, tables |-> first.tables] :
                 second \in fetch_previous_hour_data_calls(first.memo, hour, day_offset,
                                                           t_now, fault = "previous") } :
          first \in fetch_data_calls(memo, hour, day_offset, t_now, fault = "current") }

DayOptions == {"Today", "Yesterday"}

\* main: the day and the hour range the controls offer at clock t_now.  Today
\* offers the hours before the current one; with none or only hour 0 before
\* it the selection is forced to Yesterday, which offers every hour.
selection(day_option, t_now) ==
  LET current_hour == HourOf(t_now)
      day_offset == IF day_option = "Today" THEN 0 ELSE -1
      max_hour == IF day_offset = 0 THEN current_hour - 1 ELSE LastHour
  IN  IF max_hour <= 0 /\ day_offset = 0
      THEN [day_offset |-> -1, max_hour |-> LastHour]
      ELSE [day_offset |-> day_offset, max_hour |-> max_hour]

\* main(): one run of the script in the running process, for the day option
\* and the hour picked; fault is what the warehouse does during it.
main(hour, day_option, fault) ==
  LET day_offset == selection(day_option, now).day_offset
  IN  /\ hour \in 0..selection(day_option, now).max_hour
      /\ \E out \in create_map_calls(cache, hour, day_offset, now, fault) :
           /\ data' = out.data
           /\ prev_data' = out.prev_data
           /\ popups' = out.popups
           /\ warnings' = out.warnings
           /\ query' = out.tables
           /\ cache' = out.memo
           /\ failure' = IF out.raised THEN "raised" ELSE "none"
           /\ call' = [fn |-> "main", hour |-> hour, day_offset |-> day_offset,
                       prev_hour |-> prev_bucket(hour, day_offset).prev_hour,
                       prev_day_offset |-> prev_bucket(hour, day_offset).prev_day_offset,
                       refresh_time |-> out.refresh_time, fault |-> fault,
                       hit |-> out.hit, queries |-> out.queries]
      /\ UNCHANGED source

(***************************************************************************)
(* src/demand.py: fetch_data(start_hour, end_hour) and main                *)
(***************************************************************************)
demand_fetch_data_key(start_hour, end_hour) == <<"demand.fetch_data", start_hour, end_hour>>

\* The rows of the query: today's hotspots of the hours asked for with a
\* predicted demand above 0.
demand_rows(start_hour, end_hour, t_now) ==
  { [label |-> h.label, hr |-> h.part_of_day,
     uber_eligible_offers |-> SAFE_CAST(h.delivery_count)] :
    h \in {x \in stg_hotspots :
             /\ x.date = DateOf(t_now)
             /\ start_hour <= x.part_of_day /\ x.part_of_day <= end_hour
             /\ SAFE_CAST(x.delivery_count) # NULL
             /\ SAFE_CAST(x.delivery_count) > 0} }

\* ORDER BY hr, label
order_by_hr_label(rows) ==
  LET n == Cardinality(rows)
  IN  {f \in [1..n -> rows] :
         /\ \A i, j \in 1..n : i # j => f[i] # f[j]
         /\ \A i \in 1..n : i < n =>
              \/ f[i].hr < f[i + 1].hr
              \/ f[i].hr = f[i + 1].hr /\ ~LabelBefore(f[i + 1].label, f[i].label)}

\* fetch_data of demand.py in a running process: the except clause shows the
\* error and returns None, and st.cache_data stores what the function returns.
demand_fetch_data_calls(memo, start_hour, end_hour, t_now, fails) ==
  LET key == demand_fetch_data_key(start_hour, end_hour)
  IN  IF key \in DOMAIN memo
      THEN { [shown |-> FALSE, hit |-> TRUE, queries |-> 0,
              value |-> memo[key], memo |-> memo] }
      ELSE IF fails
      THEN { [shown |-> TRUE, hit |-> FALSE, queries |-> 1,
              value |-> [none |-> TRUE, data |-> <<>>],
              memo |-> (key :> [none |-> TRUE, data |-> <<>>]) @@ memo] }
      ELSE { [shown |-> FALSE, hit |-> FALSE, queries |-> 1,
              value |-> [none |-> FALSE, data |-> f],
              memo |-> (key :> [none |-> FALSE, data |-> f]) @@ memo] :
             f \in order_by_hr_label(demand_rows(start_hour, end_hour, t_now)) }

\* create_map(data, hour, use_clustering) of demand.py: one shape per row of
\* the hour selected; nothing for None or an empty frame.
demand_create_map(value, selected_hour) ==
  IF value.none \/ value.data = <<>>
  THEN <<>>
  ELSE SelectSeq(value.data, LAMBDA row : row.hr = selected_hour)

FirstStartHour == 8    \* start_hour slider, min_value
LastEndHour == 22      \* end_hour slider, max_value

\* main() of demand.py, for the hour range and the map hour picked.
demand_main(start_hour, end_hour, selected_hour, fails) ==
  /\ start_hour \in FirstStartHour..LastEndHour
  /\ end_hour \in start_hour..LastEndHour
  /\ selected_hour \in start_hour..end_hour
  /\ \E out \in demand_fetch_data_calls(cache, start_hour, end_hour, now, fails) :
       /\ data' = out.value.data
       /\ popups' = demand_create_map(out.value, selected_hour)
       /\ cache' = out.memo
       /\ failure' = IF out.shown THEN "st.error" ELSE "none"
       /\ call' = [fn |-> "demand.main", start_hour |-> start_hour,
                   end_hour |-> end_hour, fault |-> fails,
                   hit |-> out.hit, queries |-> out.queries, none |-> out.value.none]
  /\ prev_data' = <<>>
  /\ warnings' = {}
  /\ query' = NoTables
  /\ UNCHANGED source

(***************************************************************************)
(* The rows the warehouse may hold                                         *)
(***************************************************************************)
Labels == {"h1", "h2"}
Robots == {"r1", "r2"}
DayOffsets == {-1, 0}          \* "Today", "Yesterday"
Hours == 0..LastHour           \* the hour slider

\* Hotspot centres 800 m apart: a point half way is within 420 m of both.
centre_of(label) == IF label = "h1" THEN 0 ELSE 800

\* Vehicle positions: at h1, between h1 and h2, at h2, away from both.
Positions == {0, 400, 800, 5000}

\* The clock: day 2, 00:50.
Clock0 == 2 * MinutesPerDay + 50
Today == DateOf(Clock0)
Midnight == Today * MinutesPerDay

hotspot_row(label, date, hour, delivery_count) ==
  [label |-> label, hotspot_location |-> centre_of(label), date |-> date,
   part_of_day |-> hour, delivery_count |-> delivery_count]

rover_row(robot_id, time_pst, geo_pose) ==
  [robot_id |-> robot_id, time_pst |-> time_pst, geo_pose |-> geo_pose]

delivery_row(robot_id, start_ts, end_ts) ==
  [robot_id |-> robot_id, start_ts |-> start_ts, end_ts |-> end_ts]

quote_row(partner_job_id, pickup_location, time) ==
  [partner_job_id |-> partner_job_id, pickup_location |-> pickup_location, time |-> time]

\* The i-th report of a vehicle in hour 0 of today: 00:10, 00:16, 00:40, 00:45, ...
SampleTime(i) ==
  Midnight + (IF i = 1 THEN 10 ELSE IF i = 2 THEN 16 ELSE 40 + 5 * (i - 3))

\* A vehicle's reports: the first k report times, each at some position.
track(robot_id, t) == {rover_row(robot_id, SampleTime(i), t[i]) : i \in DOMAIN t}

\* Telemetry of at most MaxSamples rows.
Tracks ==
  UNION { UNION { { track("r1", a) \cup track("r2", b) :
                      <<a, b>> \in [1..k1 -> Positions] \X [1..k2 -> Positions] } :
                  k2 \in 0..(MaxSamples - k1) } :
          k1 \in 0..MaxSamples }

\* Deliveries: none, or r1 dispatched at 00:12 and dropping off at 00:42.
DeliverySets == { {}, {delivery_row("r1", Midnight + 12, Midnight + 42)} }

\* Two rows of job 101, the second exactly 400 m from both centres; job 102 at
\* h2; job 103 at 401 m from h2; a row without a job id at h1.
Offers ==
  { quote_row(101, 0, Midnight + 5), quote_row(101, 400, Midnight + 7),
    quote_row(102, 800, Midnight + 9), quote_row(103, 1201, Midnight + 11),
    quote_row(NULL, 0, Midnight + 13) }

\* Catalog and offers: h1 alone in the bucket of hour 0 today; h1 and h2
\* there; h1 and h2 there with offers, and h1 also in the bucket of the hour
\* before and in yesterday's bucket of hour 0.
SupplyScenarios ==
  { <<{hotspot_row("h1", Today, 0, 20)}, {}>>,
    <<{hotspot_row("h1", Today, 0, 20), hotspot_row("h2", Today, 0, 10)}, {}>>,
    <<{hotspot_row("h1", Today, 0, 20), hotspot_row("h2", Today, 0, 10),
       hotspot_row("h1", Today - 1, LastHour, 10), hotspot_row("h1", Today - 1, 0, 10)},
      Offers>> }

InitOutputs ==
  /\ call = [fn |-> "none"]
  /\ data = <<>>
  /\ prev_data = <<>>
  /\ popups = <<>>
  /\ warnings = {}
  /\ query = NoTables
  /\ cache = EmptyCache
  /\ failure = "none"

Init ==
  /\ now = Clock0
  /\ \E sc \in SupplyScenarios : stg_hotspots = sc[1] /\ quotes = sc[2]
  /\ stg_rover_state \in Tracks
  /\ deliveries_wide \in DeliverySets
  /\ InitOutputs

requests(hours) ==
  \E hour \in hours, day_offset \in DayOffsets :
    \/ fetch_data(hour, day_offset)
    \/ fetch_previous_hour_data(hour, day_offset)
    \/ create_map(hour, day_offset)

\* Requests for hour 0 and hour 1: the hour with data and the hour after it.
RequestHours == {0, 1}

Next == requests(RequestHours)

Spec == Init /\ [][Next]_vars

(***************************************************************************)
(* A second family of warehouse contents, for classification and trend:    *)
(* many demand values, and telemetry that gives h1 no supply, exactly      *)
(* 0.1 h, half an hour, and more than 24 h.                                *)
(***************************************************************************)
\* delivery_count values: negative, zero, 1.0 and 2.0
DemandValues == {-5, 0, 10, 20}

optional_rows(label, date, hour, counts) ==
  {{}} \cup {{hotspot_row(label, date, hour, c)} : c \in counts}

\* h1 in hour 0 of today with any demand or absent, h2 there or not, h1 in
\* the hour before with any non-negative demand or absent.
DemandCatalogs ==
  { t[1] \cup t[2] \cup t[3] :
      t \in optional_rows("h1", Today, 0, DemandValues)
            \X optional_rows("h2", Today, 0, {10})
            \X optional_rows("h1", Today - 1, LastHour, DemandValues \ {-5}) }

\* Yesterday 00:55, inside the 24 hours before the clock and in hour 0.
YesterdaySample == Midnight - MinutesPerDay + 55

SupplyLevels ==
  { {},
    {rover_row("r1", SampleTime(1), 0), rover_row("r1", SampleTime(2), 0)},
    {rover_row("r1", SampleTime(1), 0), rover_row("r1", SampleTime(3), 0)},
    {rover_row("r1", YesterdaySample, 0), rover_row("r1", SampleTime(1), 0),
     rover_row("r2", YesterdaySample, 0), rover_row("r2", SampleTime(1), 0)} }

InitDemand ==
  /\ now = Clock0
  /\ stg_hotspots \in DemandCatalogs
  /\ stg_rover_state \in SupplyLevels
  /\ deliveries_wide = {}
  /\ quotes = {}
  /\ InitOutputs

\* Requests for every hour of the slider.
NextAllHours == requests(Hours)

SpecDemand == InitDemand /\ [][NextAllHours]_vars

(***************************************************************************)
(* A running process: requests through main, the clock passing midnight,   *)
(* rows arriving late, and queries the warehouse fails.                    *)
(***************************************************************************)
MaxDays == 1               \* days the clock advances

\* The clock: day 2, 02:50.
ClockRunning == 2 * MinutesPerDay + 2 * MinutesPerHour + 50

\* Hour 1 of day 2 and of day 3, hour 0 of day 2, hour 1 of day 1, and hour 8
\* of day 2 and day 3 for h1, with a demand that differs between the days.
RunningBase ==
  { hotspot_row("h1", Today + 1, 1, 10),
    hotspot_row("h1", Today, 0, 10), hotspot_row("h1", Today - 1, 1, 10),
    hotspot_row("h1", Today, FirstStartHour, 10),
    hotspot_row("h1", Today + 1, FirstStartHour, 20) }

\* h1 and h2 in hour 1 of day 2: demands above 0, below 0, equal, and a
\* delivery_count that is no number.
RunningCatalogs ==
  { RunningBase \cup t[1] \cup t[2] :
      t \in (optional_rows("h1", Today, 1, {20, -5}) \ {{}})
            \X optional_rows("h2", Today, 1, {NotNumeric, -10, 20, 30}) }

\* r1 at h1 at 01:10 and 01:40 of day 2.
RunningReports ==
  { rover_row("r1", Midnight + MinutesPerHour + 10, 0),
    rover_row("r1", Midnight + MinutesPerHour + 40, 0) }

\* A report of 01:50 that reaches the table late.
LateReports == { rover_row("r1", Midnight + MinutesPerHour + 50, 0) }

InitRunning ==
  /\ now = ClockRunning
  /\ stg_hotspots \in RunningCatalogs
  /\ stg_rover_state = RunningReports
  /\ deliveries_wide = {}
  /\ quotes = {}
  /\ InitOutputs

outputs == <<call, data, prev_data, popups, warnings, query, cache, failure>>

\* The clock moves on by a day.
Tick ==
  /\ now < ClockRunning + MaxDays * MinutesPerDay
  /\ now' = now + MinutesPerDay
  /\ UNCHANGED <<stg_hotspots, stg_rover_state, deliveries_wide, quotes>>
  /\ UNCHANGED outputs

\* A row reaches stg_rover_state.
Arrive ==
  /\ \E r \in LateReports \ stg_rover_state : stg_rover_state' = stg_rover_state \cup {r}
  /\ UNCHANGED <<now, stg_hotspots, deliveries_wide, quotes>>
  /\ UNCHANGED outputs

\* The hour picked in main, and the hour range picked in demand.py's main.
RunningHours == {1}
RunningEndHours == {FirstStartHour}

NextRunning ==
  \/ \E hour \in RunningHours, day_option \in DayOptions, fault \in Faults :
       main(hour, day_option, fault)
  \/ \E end_hour \in RunningEndHours, fails \in BOOLEAN :
       demand_main(FirstStartHour, end_hour, FirstStartHour, fails)
  \/ Tick
  \/ Arrive

SpecRunning == InitRunning /\ [][NextRunning]_vars

(***************************************************************************)
(* Properties                                                              *)
(***************************************************************************)
\* The frame the tables in `query` belong to, and its bucket.
frame_of_query == IF call.fn = "fetch_previous_hour_data" THEN prev_data ELSE data

bucket_hour == IF call.fn = "fetch_previous_hour_data" THEN call.prev_hour ELSE call.hour

bucket_date ==
  DateOf(call.refresh_time)
    + (IF call.fn = "fetch_previous_hour_data" THEN call.prev_day_offset ELSE call.day_offset)

called == call.fn # "none"

StatusCategories ==
  {"High Demand No Supply", "Demand No Supply", "Demand With Supply",
   "Supply No Demand", "No Activity"}

\* The table of the status categories, first matching row: demand in tenths
\* (2 is 20), supply in minutes (0.1 h is 6).
status_table(demand, supply) ==
  IF demand >= 20 /\ supply <= 6 THEN "High Demand No Supply"
  ELSE IF demand > 0 /\ supply <= 6 THEN "Demand No Supply"
  ELSE IF demand > 0 /\ supply > 6 THEN "Demand With Supply"
  ELSE IF demand <= 0 /\ supply > 6 THEN "Supply No Demand"
  ELSE "No Activity"

\* C1: every row classified by create_map gets exactly one of the five status
\* categories, the one of the first matching row of the table.
C1_StatusTable ==
  call.fn = "create_map" =>
    /\ Len(popups) = Len(data)
    /\ \A i \in DOMAIN data :
         /\ popups[i].status \in StatusCategories
         /\ popups[i].status =
              status_table(data[i].predicted_demand, data[i].net_supply_hours)

\* C1 witness: a hotspot with demand exactly 2 and supply exactly 0.1 h is
\* classified High Demand No Supply.
C1_Witness ==
  /\ call.fn = "create_map"
  /\ \E i \in DOMAIN data :
       /\ data[i].predicted_demand = 20
       /\ data[i].net_supply_hours = 6
       /\ popups[i].status = "High Demand No Supply"

\* C2: every classified hotspot whose net supply is above 24 h (1440 minutes)
\* raises a warning, whatever its demand, and still gets a category.
C2_WarningAbove24h ==
  call.fn = "create_map" =>
    \A i \in DOMAIN data :
      data[i].net_supply_hours > 1440 =>
        /\ data[i].hotspot_label \in warnings
        /\ popups[i].status \in StatusCategories

\* The rows of point_assignments that come from sample r.
attributions(r) ==
  {p \in query.assigned : p.robot_id = r.robot_id /\ p.time_pst = r.time_pst}

\* C3: every telemetry sample of the query is attributed to at most one hotspot
\* of the bucket, and to none when it is outside every radius.
C3_AtMostOneHotspot ==
  called =>
    \A r \in query.samples :
      /\ Cardinality(attributions(r)) <= 1
      /\ (\A h \in query.hotspots :
            ST_DISTANCE(h.hotspot_location, r.geo_pose) > 420) => attributions(r) = {}

\* The credited intervals summed per hotspot and delivery state make up the
\* hours of the frame.
hours_are_credits ==
  \A i \in DOMAIN frame_of_query :
    LET here == {c \in query.credits : c.location = frame_of_query[i].hotspot_label}
    IN  /\ frame_of_query[i].on_duty_on_delivery_hours
             = SumHours({c \in here : c.is_on_delivery})
        /\ frame_of_query[i].on_duty_not_on_delivery_hours
             = SumHours({c \in here : ~c.is_on_delivery})

\* Credit c starts at a row of its hotspot and state and ends at the next
\* attributed row of the same vehicle.
consecutive_rows(c) ==
  /\ c.hours = c.next_time_pst - c.time_pst
  /\ c.hours >= 0
  /\ \E p \in query.assigned :
       /\ p.robot_id = c.robot_id /\ p.time_pst = c.time_pst
       /\ p.location = c.location /\ p.is_on_delivery = c.is_on_delivery
  /\ \E q \in query.assigned : q.robot_id = c.robot_id /\ q.time_pst = c.next_time_pst
  /\ ~ \E m \in query.assigned :
         /\ m.robot_id = c.robot_id
         /\ c.time_pst < m.time_pst /\ m.time_pst < c.next_time_pst

\* C4 as amended: every duration credited to a (hotspot, delivery state) pair
\* runs between two consecutive attributed rows of the same vehicle and is
\* credited to the hotspot and state of the earlier row, whatever hotspot the
\* later row is attributed to.
C4_CreditedToStartingRow ==
  called => hours_are_credits /\ \A c \in query.credits : consecutive_rows(c)

\* C4 witness: a positive duration is credited to a hotspot although the
\* sample that ends it is not attributed to that hotspot.
C4_Witness ==
  /\ call.fn = "fetch_data"
  /\ \E c \in query.credits :
       /\ c.hours > 0
       /\ ~ \E q \in query.assigned :
              /\ q.robot_id = c.robot_id /\ q.time_pst = c.next_time_pst
              /\ q.location = c.location
       /\ \E i \in DOMAIN data :
            /\ data[i].hotspot_label = c.location
            /\ data[i].net_supply_hours >= c.hours

\* C4 as stated: both endpoints of every credited duration are attributed to
\* the hotspot it is credited to.
C4_BothEndpointsSameHotspot ==
  called =>
    \A c \in query.credits :
      /\ consecutive_rows(c)
      /\ \E q \in query.assigned :
           /\ q.robot_id = c.robot_id /\ q.time_pst = c.next_time_pst
           /\ q.location = c.location

\* The per-hotspot metrics of a frame.
metrics(frame) ==
  { [hotspot_label |-> frame[i].hotspot_label,
     on_duty_on_delivery_hours |-> frame[i].on_duty_on_delivery_hours,
     on_duty_not_on_delivery_hours |-> frame[i].on_duty_not_on_delivery_hours,
     net_supply_hours |-> frame[i].net_supply_hours,
     num_robots |-> frame[i].num_robots] : i \in DOMAIN frame }

\* C5: two runs of fetch_data for the same hour and day offset over the same
\* rows at the same clock return the same per-hotspot hours and vehicle counts.
C5_Deterministic ==
  [][ ( /\ call.fn = "fetch_data" /\ call'.fn = "fetch_data"
        /\ call'.hour = call.hour /\ call'.day_offset = call.day_offset
        /\ source' = source )
      => metrics(data') = metrics(data) ]_vars

\* C6: for every hotspot of a frame the two delivery-state partitions add up
\* to the net supply hours, and the net supply hours are the credited
\* intervals of the hotspot, each counted once.
C6_PartitionsSumToNet ==
  called =>
    /\ hours_are_credits
    /\ \A i \in DOMAIN frame_of_query :
         /\ frame_of_query[i].on_duty_not_on_delivery_hours
              + frame_of_query[i].on_duty_on_delivery_hours
            = frame_of_query[i].net_supply_hours
         /\ frame_of_query[i].net_supply_hours
            = SumHours({c \in query.credits :
                          c.location = frame_of_query[i].hotspot_label})

\* C6 witness: a hotspot with hours in both partitions.
C6_Witness ==
  /\ call.fn = "fetch_data"
  /\ \E i \in DOMAIN data :
       /\ data[i].on_duty_not_on_delivery_hours > 0
       /\ data[i].on_duty_on_delivery_hours > 0

\* The labels of the catalog rows of the bucket.
catalog_labels ==
  {h.label : h \in {x \in stg_hotspots : x.date = bucket_date /\ x.part_of_day = bucket_hour}}

\* An offer of the bucket's hour within 400 m of the centre.
has_offer(centre) ==
  \E q \in quotes :
    /\ ST_DISTANCE(centre, q.pickup_location) <= 400
    /\ HourOf(q.time) = bucket_hour
    /\ q.time >= call.refresh_time - WindowMinutes

\* C7: the frame has exactly one record per label of the bucket's catalog; a
\* hotspot without offers has offer count 0 and a hotspot without credited
\* telemetry has 0 in both partitions, net supply 0 and vehicle count 0; no
\* value is missing.
C7_OneRecordPerLabel ==
  called =>
    /\ Len(frame_of_query) = Cardinality(catalog_labels)
    /\ {frame_of_query[i].hotspot_label : i \in DOMAIN frame_of_query} = catalog_labels
    /\ \A i \in DOMAIN frame_of_query :
         LET row == frame_of_query[i]
         IN  /\ row.num_offers # NULL
             /\ row.on_duty_not_on_delivery_hours # NULL
             /\ row.on_duty_on_delivery_hours # NULL
             /\ row.net_supply_hours # NULL
             /\ ~has_offer(row.location) => row.num_offers = 0
             /\ (~ \E c \in query.credits : c.location = row.hotspot_label) =>
                  /\ row.on_duty_not_on_delivery_hours = 0
                  /\ row.on_duty_on_delivery_hours = 0
                  /\ row.net_supply_hours = 0
                  /\ row.num_robots = 0

\* C7 witness: a frame of two hotspots, one with supply and one with no offer
\* and no telemetry.
C7_Witness ==
  /\ call.fn = "fetch_data"
  /\ Len(data) = 2
  /\ \E i, j \in DOMAIN data :
       /\ data[i].net_supply_hours > 0
       /\ data[j].num_offers = 0 /\ data[j].net_supply_hours = 0 /\ data[j].num_robots = 0
       /\ ~ \E p \in query.assigned : p.location = data[j].hotspot_label

\* The samples of a vehicle in the window of the query.
samples_of(robot_id) == {r \in query.samples : r.robot_id = robot_id}

\* C8: the last sample of a vehicle credits no duration; a vehicle with one
\* sample in the window gets no supply hours at any hotspot, and when every
\* vehicle has one sample every hotspot has net supply 0.
C8_LastSampleCreditsNothing ==
  called =>
    /\ \A c \in query.credits :
         (~ \E r \in query.samples : r.robot_id = c.robot_id /\ r.time_pst > c.time_pst)
           => c.hours = 0
    /\ \A r \in query.samples :
         Cardinality(samples_of(r.robot_id)) = 1
           => SumHours({c \in query.credits : c.robot_id = r.robot_id}) = 0
    /\ (\A r \in query.samples : Cardinality(samples_of(r.robot_id)) = 1)
         => \A i \in DOMAIN frame_of_query : frame_of_query[i].net_supply_hours = 0

\* C8 witness: a vehicle whose only sample is within the radius of two
\* hotspots, and the frame computed from it.
C8_Witness ==
  /\ call.fn = "fetch_data"
  /\ Len(data) = 2
  /\ \E r \in query.samples :
       /\ Cardinality(samples_of(r.robot_id)) = 1
       /\ Cardinality(attributions(r)) = 2
       /\ \E c \in query.credits : c.robot_id = r.robot_id

\* The previous-hour records of a label.
prev_records(label) == {i \in DOMAIN prev_data : prev_data[i].hotspot_label = label}

\* C9 as amended: the trend is up when the current demand is greater than the
\* previous-hour demand, down when it is less, flat when they are equal; a
\* label without a previous-hour record has previous demand 0, so its trend is
\* up when its current demand is above 0 and flat when it is 0.
C9_TrendMissingPreviousIsZero ==
  call.fn = "create_map" =>
    \A i \in DOMAIN popups :
      LET cur == data[i].predicted_demand
          recs == prev_records(data[i].hotspot_label)
      IN  /\ \A k \in recs :
               /\ cur > prev_data[k].predicted_demand => popups[i].trend = "up"
               /\ cur < prev_data[k].predicted_demand => popups[i].trend = "down"
               /\ cur = prev_data[k].predicted_demand => popups[i].trend = "flat"
          /\ recs = {} =>
               /\ cur > 0 => popups[i].trend = "up"
               /\ cur = 0 => popups[i].trend = "flat"
               /\ popups[i].prev_demand = 0

\* C9 witness: a hotspot with positive demand and no previous-hour record is
\* shown as rising.
C9_Witness ==
  /\ call.fn = "create_map"
  /\ \E i \in DOMAIN popups :
       /\ prev_records(data[i].hotspot_label) = {}
       /\ data[i].predicted_demand > 0
       /\ popups[i].trend = "up"

\* C9 as stated: up when greater, down when less, flat when equal or when the
\* previous hour has no record of the label.
C9_FlatWhenPreviousAbsent ==
  call.fn = "create_map" =>
    \A i \in DOMAIN popups :
      LET cur == data[i].predicted_demand
          recs == prev_records(data[i].hotspot_label)
      IN  /\ \A k \in recs :
               /\ cur > prev_data[k].predicted_demand => popups[i].trend = "up"
               /\ cur < prev_data[k].predicted_demand => popups[i].trend = "down"
               /\ cur = prev_data[k].predicted_demand => popups[i].trend = "flat"
          /\ recs = {} => popups[i].trend = "flat"

\* C10: fetch_previous_hour_data fetches bucket (hour - 1, day_offset) for
\* hour >= 1 and (23, day_offset - 1) for hour 0: an hour in 0..23, one hour
\* before the current bucket, and the frame returned is that bucket's.
C10_PreviousBucket ==
  call.fn \in {"fetch_previous_hour_data", "create_map"} =>
    /\ call.prev_hour \in 0..23
    /\ call.hour >= 1 => call.prev_hour = call.hour - 1 /\ call.prev_day_offset = call.day_offset
    /\ call.hour = 0 => call.prev_hour = 23 /\ call.prev_day_offset = call.day_offset - 1
    /\ 24 * call.prev_day_offset + call.prev_hour = 24 * call.day_offset + call.hour - 1
    /\ {prev_data[i].hotspot_label : i \in DOMAIN prev_data}
         = {h.label : h \in {x \in stg_hotspots :
                               /\ 24 * x.date + x.part_of_day
                                    = 24 * (DateOf(call.refresh_time) + call.day_offset)
                                        + call.hour - 1}}

\* C10 witness: at hour 0 today the previous bucket is hour 23 of yesterday,
\* and its record is fetched.
C10_Witness ==
  /\ call.fn = "fetch_previous_hour_data"
  /\ call.hour = 0 /\ call.day_offset = 0
  /\ call.prev_hour = 23 /\ call.prev_day_offset = -1
  /\ Len(prev_data) = 1

\* The offers of the bucket's hour within 400 of a centre.
offers_within(centre) ==
  {q \in quotes :
     /\ ST_DISTANCE(centre, q.pickup_location) <= 400
     /\ HourOf(q.time) = bucket_hour
     /\ q.time >= call.refresh_time - WindowMinutes}

\* C12: the offer count of every hotspot of the frame is the number of
\* distinct offer identifiers among the offers within 400 of its centre;
\* rows that carry the same identifier count once, rows without one not at all.
C12_DistinctOfferIds ==
  called =>
    \A i \in DOMAIN frame_of_query :
      frame_of_query[i].num_offers =
        Cardinality({q.partner_job_id : q \in offers_within(frame_of_query[i].location)}
                      \ {NULL})

\* C12 witness: a hotspot with two offer rows of one identifier within 400
\* and offer count 1, next to a hotspot with two identifiers and count 2.
C12_Witness ==
  /\ call.fn = "fetch_data"
  /\ \E i, j \in DOMAIN data :
       /\ data[i].num_offers = 1
       /\ \E q1, q2 \in offers_within(data[i].location) :
            q1 # q2 /\ q1.partner_job_id = q2.partner_job_id /\ q1.partner_job_id # NULL
       /\ data[j].num_offers = 2
       /\ \E q \in quotes : ST_DISTANCE(data[j].location, q.pickup_location) = 401

\* The reports of a vehicle that follow time t in the telemetry table.
later_reports(robot_id, t) ==
  {r.time_pst : r \in {x \in stg_rover_state : x.robot_id = robot_id /\ x.time_pst > t}}

\* No sample of the query is attributed to more than one hotspot.
single_attribution == \A r \in query.samples : Cardinality(attributions(r)) <= 1

\* C14: when no sample is attributed to several hotspots, every credited
\* duration runs from its sample to the same vehicle's immediately following
\* report in the telemetry table, attributed or not, so the time after an
\* unattributed report is credited to no hotspot.
C14_ToNextSampleInStream ==
  (called /\ single_attribution) =>
    \A c \in query.credits :
      /\ later_reports(c.robot_id, c.time_pst) # {}
      /\ c.next_time_pst = Min(later_reports(c.robot_id, c.time_pst))

\* Time t lies in the one-hour bucket of the call: the selected date and hour.
in_bucket(t) == DateOf(t) = bucket_date /\ HourOf(t) = bucket_hour

\* C15: every telemetry sample attributed to a hotspot of the frame and every
\* offer counted for one has its timestamp in the hour of the selected date,
\* the date of the catalog rows used.
C15_InsideSelectedBucket ==
  called =>
    /\ \A h \in query.hotspots :
         \E x \in stg_hotspots : x.label = h.label /\ x.date = bucket_date
                                   /\ x.part_of_day = bucket_hour
    /\ \A p \in query.assigned : in_bucket(p.time_pst)
    /\ \A q \in query.offers : in_bucket(q.time)

\* The attributed rows of a vehicle.
assigned_times(robot_id) ==
  {p.time_pst : p \in {x \in query.assigned : x.robot_id = robot_id}}

Max(S) == CHOOSE x \in S : \A y \in S : x >= y

\* C18: for every vehicle with attributed samples, the durations credited to
\* all hotspots and both delivery states add up to the time between its first
\* and its last attributed sample, also when samples are attributed to
\* several hotspots.
C18_VehicleTimeNotDuplicated ==
  called =>
    \A robot_id \in {p.robot_id : p \in query.assigned} :
      SumHours({c \in query.credits : c.robot_id = robot_id})
        = Max(assigned_times(robot_id)) - Min(assigned_times(robot_id))

\* C18 witness: a vehicle with a sample attributed to two hotspots and a later
\* sample, and positive hours credited.
C18_Witness ==
  /\ call.fn = "fetch_data"
  /\ \E r \in query.samples :
       /\ Cardinality(attributions(r)) = 2
       /\ \E c \in query.credits : c.robot_id = r.robot_id /\ c.time_pst = r.time_pst
                                     /\ c.hours > 0
       /\ Cardinality(assigned_times(r.robot_id)) >= 2

\* C16: when no sample is attributed to several hotspots, the net supply
\* hours of every hotspot of the frame are at most its vehicle count times one
\* hour (60 minutes), and no credited interval is longer than one hour.
C16_AtMostOneHourPerVehicle ==
  (called /\ single_attribution) =>
    /\ \A i \in DOMAIN frame_of_query :
         frame_of_query[i].net_supply_hours <= 60 * frame_of_query[i].num_robots
    /\ \A c \in query.credits : c.hours <= 60

\* A step that serves a request: the warehouse and the clock stay.
request_step == source' = source /\ call' # call

\* The frames a fresh computation of fetch_data for the request served by
\* the step returns, over the rows and at the clock of the request.
fresh_frames == {run.frame : run \in fetch_data_runs(call'.hour, call'.day_offset, now)}

\* C11: a frame that a request gets from the cache for (hour, day_offset) is
\* a frame that a fresh computation of fetch_data(hour, day_offset) over the
\* rows of the warehouse at the clock of the request returns, whatever
\* requests, clock advances and arrivals of rows came before.
C11_CacheHitEqualsFresh ==
  [][ (request_step /\ call'.fn = "main" /\ failure' = "none" /\ call'.hit)
        => data' \in fresh_frames ]_vars

\* src/updated.py: a request whose query for the current bucket, or for the
\* previous-hour bucket, is sent and fails raises, shows no frame and no map,
\* stores nothing for the failed call and sends the failed query once.
updated_fails_closed ==
  (request_step /\ call'.fn = "main") =>
    LET current == fetch_data_key(call'.hour, call'.day_offset)
        previous == fetch_previous_hour_data_key(call'.hour, call'.day_offset)
        inner == fetch_data_key(call'.prev_hour, call'.prev_day_offset)
    IN  /\ (call'.fault = "current" /\ current \notin DOMAIN cache) =>
             /\ failure' = "raised"
             /\ data' = <<>> /\ prev_data' = <<>> /\ popups' = <<>>
             /\ cache' = cache
             /\ call'.queries = 1
        /\ (/\ call'.fault = "previous"
            /\ previous \notin DOMAIN cache /\ inner \notin DOMAIN cache) =>
             /\ failure' = "raised"
             /\ data' = <<>> /\ prev_data' = <<>> /\ popups' = <<>>
             /\ DOMAIN cache' \subseteq DOMAIN cache \cup {current}
             /\ call'.queries = (IF current \in DOMAIN cache THEN 1 ELSE 2)

\* src/demand.py: the same for its fetch_data.
demand_fails_closed ==
  (request_step /\ call'.fn = "demand.main") =>
    ((call'.fault /\ demand_fetch_data_key(call'.start_hour, call'.end_hour)
                       \notin DOMAIN cache) =>
       /\ failure' = "raised"
       /\ data' = <<>> /\ popups' = <<>>
       /\ cache' = cache
       /\ call'.queries = 1)

\* C13: when the warehouse fails a query of a request, the failure is raised
\* to the caller, no frame and no map are produced, the query is not sent
\* again and nothing is memoised for the failed call, in updated.py (current
\* and previous-hour bucket) and in demand.py.
C13_FetchFailurePropagates == [][updated_fails_closed /\ demand_fails_closed]_vars

\* The part of C13 about src/updated.py alone.
updated_py_fails_closed == [][updated_fails_closed]_vars

\* A request of updated.py whose query for the previous-hour bucket failed
\* after the query for the current bucket had been answered.
previous_bucket_failure_seen ==
  /\ call.fn = "main" /\ call.fault = "previous" /\ failure = "raised"
  /\ call.queries = 2
  /\ fetch_data_key(call.hour, call.day_offset) \in DOMAIN cache
  /\ fetch_previous_hour_data_key(call.hour, call.day_offset) \notin DOMAIN cache

\* C17: every record of a frame that fetch_data returned has a predicted
\* demand that is a number at least 0, and no record with a smaller demand
\* comes before one with a larger demand.
C17_ClampedAndSorted ==
  (call.fn = "main" /\ failure = "none") =>
    /\ \A i \in DOMAIN data :
         data[i].predicted_demand # NULL /\ data[i].predicted_demand >= 0
    /\ \A i, j \in DOMAIN data :
         (/\ i < j
          /\ data[i].predicted_demand # NULL /\ data[j].predicted_demand # NULL)
           => data[i].predicted_demand >= data[j].predicted_demand

\* Every delivery_count of the catalog is a number.
numeric_catalog == \A h \in stg_hotspots : h.delivery_count # NotNumeric

\* C17 for a catalog in which every delivery_count is a number.
clamped_and_sorted_when_numeric == numeric_catalog => C17_ClampedAndSorted

\* A frame with a clamped record after a record with positive demand.
clamped_after_positive_seen ==
  /\ call.fn = "main" /\ failure = "none" /\ Len(data) = 2
  /\ data[1].predicted_demand > 0 /\ data[2].predicted_demand = 0
  /\ \E h \in query.hotspots : h.predicted_demand < 0 /\ h.predicted_demand # NULL

====
